---- MODULE Spec2Model ----
(***************************************************************************)
(* cloudflare-dynamic-dns, update.py: one run of main().                   *)
(*                                                                         *)
(* The run is sequential; every action below is the code between two       *)
(* blocking calls to the outside world (the config file, the operator's    *)
(* terminal, the ip echo service, the resolver, the provider API).  What   *)
(* the outside world answers is drawn with \E from small sets.             *)
(*                                                                         *)
(* `calls' and `logs' are histories: the requests the run has issued, with *)
(* what each returned, and the log lines of level info and above.          *)
(***************************************************************************)
EXTENDS Integers, Sequences, FiniteSets, TLC

VARIABLES
    pc,             \* position of the run in main()
    file,           \* content of the config file, NoFile when absent
    fileMode,       \* permission bits of the config file
    config,         \* main(): config
    token,          \* ask_for_config(): token
    zone,           \* ask_for_config(): zone
    setup_zone_id,  \* ask_for_config(): zone_id
    public_ip,      \* do_updates(): public_ip
    idx,            \* do_updates(): position of the for loop, 1-based
    zone_id,        \* check_and_update(): zone_id
    record_details, \* check_and_update(): record_details
    outcome,        \* per configured record, how check_and_update ended
    exitCode,       \* argument of sys.exit, or 0 on normal completion
    exc,            \* the exception that ended the run uncaught
    calls,          \* history of the outbound requests
    logs            \* history of the log lines, level info and above

vars == <<pc, file, fileMode, config, token, zone, setup_zone_id, public_ip,
          idx, zone_id, record_details, outcome, exitCode, exc, calls, logs>>

(***************************************************************************)
(* Bounds                                                                  *)
(***************************************************************************)
\* longest "records" list of a config file
MaxRecords == 3

(***************************************************************************)
(* Values                                                                  *)
(***************************************************************************)
\* Python's None, also as the f-string renders it
None == "None"
NoFile == [absent |-> TRUE]
NoConfig == [unset |-> TRUE]
NoRecord == [unset |-> TRUE]

\* a text is a sequence of characters; an address is one non-blank character
Blank == {" ", "\n"}
IPs == {<<"5">>, <<"9">>}
Tokens == {"T"}
ZoneNames == {"example.com", "example.org"}
RecordNames == {"a.example.com", "b.example.org"}

\* stat.S_IRUSR | stat.S_IWUSR
OwnerReadWrite == "0600"

StatusOK == 200
\* the statuses the services answer with; 0 stands for no answer at all
\* (connection refused, timeout)
Statuses == {StatusOK, 202, 403}
NoAnswer == [status |-> 0]

ExitInvalidToken == 1
ExitUnknownZone == 2
ExitUnknownRecord == 3
ExitNormal == 0

\* what the ip echo service answers: the address, possibly surrounded by blanks
IpBodies == UNION {{ip, <<" ">> \o ip \o <<"\n">>} : ip \in IPs}
IpReplies == {NoAnswer} \cup [status : Statuses, text : IpBodies]

\* what the resolver answers
Resolutions == {[ok |-> FALSE]} \cup [ok : {TRUE}, ip : IPs]

\* the config shapes do_updates accepts
ConfigEntries == {[zone |-> "example.com", record |-> "a.example.com"],
                  [zone |-> "example.org", record |-> "b.example.org"]}
SeqsUpTo(S, n) == UNION {[1..k -> S] : k \in 0..n}
SingleConfigs == {[token |-> t, zone |-> e.zone, record |-> e.record] :
                     t \in Tokens, e \in ConfigEntries}
MultiConfigs == [token : Tokens, records : SeqsUpTo(ConfigEntries, MaxRecords)]
ConfigFiles == SingleConfigs \cup MultiConfigs

\* the provider's identifiers
ZoneIdOf(name) == IF name = "example.com" THEN "abc123" ELSE "def456"
ZoneIds == {ZoneIdOf(z) : z \in ZoneNames}
RecordIdOf(name) == IF name = "a.example.com" THEN "rec1" ELSE "rec2"

\* a JSON boolean, or None where the key is missing
JsonFlags == {"true", "false", None}

\* GET /zones?name=... : {success, result: [{id}]}, filtered by exact name
ZoneResults(name) == {<<>>, <<[id |-> ZoneIdOf(name)]>>}
ZoneReplies(name) ==
    {NoAnswer} \cup [status : Statuses, success : JsonFlags, result : ZoneResults(name)]

\* one element of the result of GET /zones/{id}/dns_records: a dict
Timestamps == {"created_on", "modified_on"}
BaseFields == {"id", "zone_id", "name", "type", "content"}
FieldSets == {BaseFields \cup Timestamps \cup {"ttl"}, BaseFields \cup {"created_on"}}
MkRecord(fields, rid, zid, name, content) ==
    [f \in fields |->
        CASE f = "id" -> rid
          [] f = "zone_id" -> zid
          [] f = "name" -> name
          [] f = "type" -> "A"
          [] f = "content" -> content
          [] f = "created_on" -> "t0"
          [] f = "modified_on" -> "t1"
          [] OTHER -> "auto"]

\* The provider lists the A records of the zone and name asked for, and lists
\* none under an identifier that names no zone (the literal None the f-string
\* renders when get_zone_id returned None).
RecordResults(zid, name) ==
    {<<>>} \cup
    IF zid \in ZoneIds
    THEN {<<MkRecord(fs, RecordIdOf(name), zid, name, c)>> : fs \in FieldSets, c \in IPs}
    ELSE {}
RecordReplies(zid, name) ==
    {NoAnswer} \cup
    [status : Statuses, success : JsonFlags, result : RecordResults(zid, name)]

\* PUT /zones/{id}/dns_records/{id} : {success: boolean}
PutReplies == {NoAnswer} \cup [status : Statuses, success : {"true", "false"}]

\* what the file system does when save_config writes the file
SaveResults == {"written", "open_failed", "chmod_failed"}

(***************************************************************************)
(* Results of a call: a value, None, or the exception it raised            *)
(***************************************************************************)
Ret(v) == [exc |-> "", none |-> FALSE, val |-> v]
RetNone == [exc |-> "", none |-> TRUE, val |-> None]
Raise(e) == [exc |-> e, none |-> FALSE, val |-> None]
Raised(r) == r.exc # ""
\* how a result reads in the history
Tag(r) == IF Raised(r) THEN r.exc ELSE IF r.none THEN None ELSE "ok"

\* requests.get / requests.put with no answer raise ConnectionError
NoResponse(resp) == resp.status = 0
\* requests.Response.raise_for_status: 4xx and 5xx raise HTTPError
IsHttpError(status) == status >= 400 /\ status < 600
\* Python truth value of response.json().get('success')
Truthy(v) == v = "true"

\* str.strip: drop the leading and the trailing blanks
RECURSIVE LStrip(_)
LStrip(s) == IF s # <<>> /\ Head(s) \in Blank THEN LStrip(Tail(s)) ELSE s
RECURSIVE RStrip(_)
RStrip(s) ==
    IF s # <<>> /\ s[Len(s)] \in Blank THEN RStrip(SubSeq(s, 1, Len(s) - 1)) ELSE s
Strip(s) == RStrip(LStrip(s))

(***************************************************************************)
(* The functions of update.py, each given what the outside world answered  *)
(***************************************************************************)
\* get_public_ip without its raise_for_status
get_public_ip_Unchecked(resp) ==
    IF NoResponse(resp) THEN Raise("ConnectionError") ELSE Ret(Strip(resp.text))

\* get_public_ip
get_public_ip(resp) ==
    IF NoResponse(resp) THEN Raise("ConnectionError")
    ELSE IF IsHttpError(resp.status) THEN Raise("HTTPError")
    ELSE Ret(Strip(resp.text))

\* get_zone_id
get_zone_id(resp) ==
    IF NoResponse(resp) THEN Raise("ConnectionError")
    ELSE IF IsHttpError(resp.status) THEN Raise("HTTPError")
    ELSE IF resp.status = StatusOK /\ Truthy(resp.success)
         THEN IF resp.result = <<>> THEN Raise("IndexError")
              ELSE Ret(resp.result[1].id)
         ELSE RetNone

\* get_a_record_details
get_a_record_details(resp) ==
    IF NoResponse(resp) THEN Raise("ConnectionError")
    ELSE IF IsHttpError(resp.status) THEN Raise("HTTPError")
    ELSE IF resp.status = StatusOK /\ Truthy(resp.success)
         THEN IF resp.result = <<>> THEN Raise("IndexError")
              ELSE Ret(resp.result[1])
         ELSE RetNone

\* update_record addressed with the zone's name in place of its identifier
PutTarget_ByName(zid, record, zone_name) ==
    [zone_id |-> zone_name, record_id |-> record["id"]]

\* update_record: the zone and the record the PUT is addressed to
PutTarget(zid, record, zone_name) == [zone_id |-> zid, record_id |-> record["id"]]

\* update_record: what it returns
update_record(resp) ==
    IF NoResponse(resp) THEN Raise("ConnectionError")
    ELSE IF IsHttpError(resp.status) THEN Raise("HTTPError")
    ELSE Ret(resp.success)

\* del d[k]
DelItem(d, k) == [f \in DOMAIN d \ {k} |-> d[f]]
\* d[k] = v
SetItem(d, k, v) == [f \in DOMAIN d \cup {k} |-> IF f = k THEN v ELSE d[f]]

\* the comparison of check_and_update inverted
AlreadyCurrent_Inverted(current_ip, target_ip) == current_ip # target_ip

\* check_and_update: current_ip == target_ip
AlreadyCurrent(current_ip, target_ip) == current_ip = target_ip

\* check_and_update without its del of modified_on
PrepareRecord_KeepsModified(fetched, target_ip) ==
    IF fetched.none THEN Raise("TypeError")
    ELSE IF "created_on" \notin DOMAIN fetched.val THEN Raise("KeyError")
    ELSE Ret(SetItem(DelItem(fetched.val, "created_on"), "content", target_ip))

\* check_and_update: from what get_a_record_details returned to the body
\* that is submitted
PrepareRecord(fetched, target_ip) ==
    IF fetched.none THEN Raise("TypeError")
    ELSE IF "created_on" \notin DOMAIN fetched.val THEN Raise("KeyError")
    ELSE IF "modified_on" \notin DOMAIN fetched.val THEN Raise("KeyError")
    ELSE Ret(SetItem(DelItem(DelItem(fetched.val, "created_on"), "modified_on"),
                     "content", target_ip))

\* check_and_update: the branch taken on what update_record returned
UpdateOutcome(returned) == IF Truthy(returned) THEN "UPDATED" ELSE "UPDATE_FAILED"

\* ask_for_config without its except clause for HTTPError
ZoneLookupHandler_NoHttp(e) ==
    CASE e = "IndexError" -> <<ExitUnknownZone>>
      [] OTHER -> <<>>

\* ask_for_config: the except clauses around get_zone_id; <<>> when the
\* exception is not caught
ZoneLookupHandler(e) ==
    CASE e = "HTTPError" -> <<ExitInvalidToken>>
      [] e = "IndexError" -> <<ExitUnknownZone>>
      [] OTHER -> <<>>

\* ask_for_config exiting with the zone's code for a missing record
RecordLookupHandler_ZoneCode(e) ==
    CASE e = "IndexError" -> <<ExitUnknownZone>>
      [] OTHER -> <<>>

\* ask_for_config: the except clause around get_a_record_details
RecordLookupHandler(e) ==
    CASE e = "IndexError" -> <<ExitUnknownRecord>>
      [] OTHER -> <<>>

\* save_config without its except clause
save_config_Uncaught(cfg, old, oldMode, result) ==
    CASE result = "written" ->
            [file |-> cfg, mode |-> OwnerReadWrite, error |-> FALSE, exc |-> ""]
      [] result = "open_failed" ->
            [file |-> old, mode |-> oldMode, error |-> FALSE, exc |-> "IOError"]
      [] OTHER ->
            [file |-> cfg, mode |-> "umask", error |-> FALSE, exc |-> "IOError"]

\* save_config: the file it leaves, and whether it logged or raised
save_config(cfg, old, oldMode, result) ==
    CASE result = "written" ->
            [file |-> cfg, mode |-> OwnerReadWrite, error |-> FALSE, exc |-> ""]
      [] result = "open_failed" ->
            [file |-> old, mode |-> oldMode, error |-> TRUE, exc |-> ""]
      [] OTHER ->
            [file |-> cfg, mode |-> "umask", error |-> TRUE, exc |-> ""]

\* do_updates: the entries the loop goes over
Entries(cfg) ==
    IF "records" \in DOMAIN cfg THEN cfg.records
    ELSE <<[zone |-> cfg.zone, record |-> cfg.record]>>

(***************************************************************************)
(* Histories                                                               *)
(***************************************************************************)
\* how an answer reads in the history
Answer(status) ==
    IF status = 0 THEN "none" ELSE IF IsHttpError(status) THEN "error" ELSE "2xx"
\* idx is 0 for the calls of the setup and of get_public_ip
Call(op, i, zid, name, answer, r) ==
    [op |-> op, idx |-> i, zone_id |-> zid, name |-> name, answer |-> answer,
     ret |-> Tag(r), val |-> r.val]
PutCall(i, target, body, answer, r) ==
    [op |-> "PUT", idx |-> i, zone_id |-> target.zone_id, name |-> target.record_id,
     answer |-> answer, ret |-> Tag(r), val |-> r.val, body |-> body]
Log(level, msg, i) == [level |-> level, msg |-> msg, idx |-> i]

(***************************************************************************)
(* The run                                                                 *)
(***************************************************************************)
Init ==
    /\ pc = "get_config"
    /\ file \in {NoFile} \cup ConfigFiles
    /\ fileMode = IF file = NoFile THEN None ELSE OwnerReadWrite
    /\ config = NoConfig
    /\ token = None
    /\ zone = None
    /\ setup_zone_id = None
    /\ public_ip = <<>>
    /\ idx = 0
    /\ zone_id = None
    /\ record_details = NoRecord
    /\ outcome = <<>>
    /\ exitCode = <<>>
    /\ exc = ""
    /\ calls = <<>>
    /\ logs = <<>>

\* sys.exit(code)
Exit(code) == pc' = "exited" /\ exitCode' = <<code>> /\ exc' = exc
\* an exception nothing catches
Crash(e) == pc' = "crashed" /\ exc' = e /\ exitCode' = exitCode
Goto(l) == pc' = l /\ exitCode' = exitCode /\ exc' = exc

\* get_config: the config file is there
LoadConfig ==
    /\ pc = "get_config"
    /\ file # NoFile
    /\ config' = file
    /\ Goto("get_public_ip")
    /\ UNCHANGED <<file, fileMode, token, zone, setup_zone_id, public_ip, idx,
                   zone_id, record_details, outcome, calls, logs>>

\* get_config: the config file is missing
ConfigMissing ==
    /\ pc = "get_config"
    /\ file = NoFile
    /\ Goto("ask_zone")
    /\ UNCHANGED <<file, fileMode, config, token, zone, setup_zone_id, public_ip, idx,
                   zone_id, record_details, outcome, calls, logs>>

\* ask_for_config: the token, the zone name, and the zone lookup
AskZone ==
    /\ pc = "ask_zone"
    /\ \E t \in Tokens, z \in ZoneNames :
         \E resp \in ZoneReplies(z) :
           LET r == get_zone_id(resp)
               h == ZoneLookupHandler(r.exc)
           IN /\ token' = t
              /\ zone' = z
              /\ calls' = Append(calls, Call("GET_ZONE", 0, None, z, Answer(resp.status), r))
              /\ IF ~Raised(r)
                 THEN /\ setup_zone_id' = r.val
                      /\ logs' = logs
                      /\ Goto("ask_record")
                 ELSE /\ setup_zone_id' = setup_zone_id
                      /\ IF h # <<>>
                         THEN /\ logs' = Append(logs,
                                    Log("error",
                                        IF h[1] = ExitInvalidToken THEN "Invalid token"
                                        ELSE "Unable to find zone", 0))
                              /\ Exit(h[1])
                         ELSE /\ logs' = logs
                              /\ Crash(r.exc)
    /\ UNCHANGED <<file, fileMode, config, public_ip, idx, zone_id, record_details,
                   outcome>>

\* ask_for_config: the record name, and the record lookup
AskRecord ==
    /\ pc = "ask_record"
    /\ \E name \in RecordNames :
         \E resp \in RecordReplies(setup_zone_id, name) :
           LET r == get_a_record_details(resp)
               h == RecordLookupHandler(r.exc)
           IN /\ calls' = Append(calls,
                    Call("GET_RECORD", 0, setup_zone_id, name, Answer(resp.status), r))
              /\ IF ~Raised(r)
                 THEN /\ config' = [token |-> token, zone |-> zone, record |-> name]
                      /\ logs' = logs
                      /\ Goto("save_config")
                 ELSE /\ config' = config
                      /\ IF h # <<>>
                         THEN /\ logs' = Append(logs,
                                    Log("error", "Invalid or missing A record", 0))
                              /\ Exit(h[1])
                         ELSE /\ logs' = logs
                              /\ Crash(r.exc)
    /\ UNCHANGED <<file, fileMode, token, zone, setup_zone_id, public_ip, idx, zone_id,
                   record_details, outcome>>

\* get_config: save_config(config, config_path), then return config
SaveConfig ==
    /\ pc = "save_config"
    /\ \E result \in SaveResults :
         LET s == save_config(config, file, fileMode, result)
         IN /\ file' = s.file
            /\ fileMode' = s.mode
            /\ logs' = Append(logs, Log("info", "Saving new config", 0))
                       \o IF s.error THEN <<Log("error", "Failed to create", 0)>>
                          ELSE <<>>
            /\ IF s.exc # "" THEN Crash(s.exc) ELSE Goto("get_public_ip")
    /\ UNCHANGED <<config, token, zone, setup_zone_id, public_ip, idx, zone_id,
                   record_details, outcome, calls>>

\* the for loop of do_updates moves on, or do_updates and main return
Advance ==
    IF idx < Len(Entries(config))
    THEN idx' = idx + 1 /\ Goto("resolve")
    ELSE idx' = idx /\ pc' = "done" /\ exitCode' = <<ExitNormal>> /\ exc' = exc

\* do_updates: public_ip = get_public_ip()
GetPublicIp ==
    /\ pc = "get_public_ip"
    /\ \E resp \in IpReplies :
         LET r == get_public_ip(resp)
         IN /\ calls' = Append(calls, Call("GET_IP", 0, None, None, Answer(resp.status), r))
            /\ IF Raised(r)
               THEN /\ Crash(r.exc)
                    /\ UNCHANGED <<public_ip, idx, outcome>>
               ELSE /\ public_ip' = r.val
                    /\ outcome' = [i \in 1..Len(Entries(config)) |-> "PENDING"]
                    /\ Advance
    /\ UNCHANGED <<file, fileMode, config, token, zone, setup_zone_id, zone_id,
                   record_details, logs>>

\* check_and_update: socket.gethostbyname(record), and the comparison
Resolve ==
    /\ pc = "resolve"
    /\ LET entry == Entries(config)[idx]
       IN \E res \in Resolutions :
            /\ calls' = Append(calls,
                  Call("RESOLVE", idx, None, entry.record, "resolver",
                       IF res.ok THEN Ret(res.ip) ELSE Raise("gaierror")))
            /\ IF ~res.ok
               THEN /\ Crash("gaierror")
                    /\ outcome' = [outcome EXCEPT ![idx] = "CRASHED"]
                    /\ UNCHANGED <<idx, logs>>
               ELSE IF AlreadyCurrent(res.ip, public_ip)
               THEN /\ logs' = Append(logs, Log("info", "nothing to do", idx))
                    /\ outcome' = [outcome EXCEPT ![idx] = "NO_OP"]
                    /\ Advance
               ELSE /\ Goto("zone_lookup")
                    /\ UNCHANGED <<idx, logs, outcome>>
    /\ UNCHANGED <<file, fileMode, config, token, zone, setup_zone_id, public_ip,
                   zone_id, record_details>>

\* check_and_update: zone_id = get_zone_id(token, zone)
ZoneLookup ==
    /\ pc = "zone_lookup"
    /\ LET entry == Entries(config)[idx]
       IN \E resp \in ZoneReplies(entry.zone) :
            LET r == get_zone_id(resp)
            IN /\ calls' = Append(calls,
                     Call("GET_ZONE", idx, None, entry.zone, Answer(resp.status), r))
               /\ IF Raised(r)
                  THEN /\ Crash(r.exc)
                       /\ outcome' = [outcome EXCEPT ![idx] = "CRASHED"]
                       /\ zone_id' = zone_id
                  ELSE /\ zone_id' = r.val
                       /\ outcome' = outcome
                       /\ Goto("record_lookup")
    /\ UNCHANGED <<file, fileMode, config, token, zone, setup_zone_id, public_ip, idx,
                   record_details, logs>>

\* check_and_update: record_details = get_a_record_details(...), the two
\* del statements and the assignment of content
RecordLookup ==
    /\ pc = "record_lookup"
    /\ LET entry == Entries(config)[idx]
       IN \E resp \in RecordReplies(zone_id, entry.record) :
            LET r == get_a_record_details(resp)
                p == IF Raised(r) THEN r ELSE PrepareRecord(r, public_ip)
            IN /\ calls' = Append(calls,
                     Call("GET_RECORD", idx, zone_id, entry.record, Answer(resp.status), r))
               /\ IF Raised(p)
                  THEN /\ Crash(p.exc)
                       /\ outcome' = [outcome EXCEPT ![idx] = "CRASHED"]
                       /\ record_details' = record_details
                  ELSE /\ record_details' = p.val
                       /\ outcome' = outcome
                       /\ Goto("put")
    /\ UNCHANGED <<file, fileMode, config, token, zone, setup_zone_id, public_ip, idx,
                   zone_id, logs>>

\* check_and_update: update_record(token, zone_id, record_details) and the
\* branch on what it returned
Put ==
    /\ pc = "put"
    /\ LET entry == Entries(config)[idx]
       IN \E resp \in PutReplies :
            LET r == update_record(resp)
            IN /\ calls' = Append(calls,
                     PutCall(idx, PutTarget(zone_id, record_details, entry.zone),
                             record_details, Answer(resp.status), r))
               /\ IF Raised(r)
                  THEN /\ Crash(r.exc)
                       /\ outcome' = [outcome EXCEPT ![idx] = "CRASHED"]
                       /\ UNCHANGED <<idx, logs, zone_id, record_details>>
                  ELSE /\ outcome' = [outcome EXCEPT ![idx] = UpdateOutcome(r.val)]
                       /\ logs' = Append(logs,
                             IF UpdateOutcome(r.val) = "UPDATED"
                             THEN Log("info", "Updated", idx)
                             ELSE Log("warning", "Failed to update", idx))
                       /\ zone_id' = None
                       /\ record_details' = NoRecord
                       /\ Advance
    /\ UNCHANGED <<file, fileMode, config, token, zone, setup_zone_id, public_ip>>

Next ==
    \/ LoadConfig
    \/ ConfigMissing
    \/ AskZone
    \/ AskRecord
    \/ SaveConfig
    \/ GetPublicIp
    \/ Resolve
    \/ ZoneLookup
    \/ RecordLookup
    \/ Put

Spec == Init /\ [][Next]_vars

(***************************************************************************)
(* Reading the histories                                                   *)
(***************************************************************************)
N == Len(Entries(config))
Ended == pc \in {"done", "exited", "crashed"}
\* positions in `calls' of the calls of kind op made for record i
CallsOf(i, op) == {k \in DOMAIN calls : calls[k].idx = i /\ calls[k].op = op}
\* check_and_update was entered for record i
Attempted(i) == CallsOf(i, "RESOLVE") # {}
Logged(level, msg, i) == \E k \in DOMAIN logs : logs[k] = Log(level, msg, i)
\* the config file was missing when the run began
FirstRun == CallsOf(0, "GET_ZONE") # {}
\* the zone lookup or the record lookup of record i returned no match or failed
LookupFailed(i) ==
    \E k \in CallsOf(i, "GET_ZONE") \cup CallsOf(i, "GET_RECORD") : calls[k].ret # "ok"
\* the PUT of record i was answered 2xx with success:false
PutDeclaredFailure(i) ==
    \E k \in CallsOf(i, "PUT") : calls[k].answer = "2xx" /\ calls[k].val = "false"

(***************************************************************************)
(* C1: when the live resolution of a record's hostname equals the target   *)
(* public IP, no zone lookup, record lookup or PUT is issued for that      *)
(* record, and the record ends as the informational "nothing to do" no-op. *)
(***************************************************************************)
C1_NoOpIssuesNoProviderCall ==
    \A k \in DOMAIN calls :
        (calls[k].op = "RESOLVE" /\ calls[k].ret = "ok" /\ calls[k].val = public_ip)
        => LET i == calls[k].idx
           IN /\ CallsOf(i, "GET_ZONE") = {}
              /\ CallsOf(i, "GET_RECORD") = {}
              /\ CallsOf(i, "PUT") = {}
              /\ outcome[i] = "NO_OP"
              /\ Logged("info", "nothing to do", i)

\* a finished run of two records: one already current, one updated
C1_Witness ==
    /\ pc = "done"
    /\ \E i, j \in 1..N :
          /\ outcome[i] = "NO_OP"
          /\ \E k \in CallsOf(i, "RESOLVE") : calls[k].val = public_ip
          /\ outcome[j] = "UPDATED"

(***************************************************************************)
(* C2: when record k fails at lookup, the run does not crash at record k   *)
(* and every other configured record is still attempted.                   *)
(***************************************************************************)
C2_LookupFailureIsolated ==
    \A k \in 1..Len(outcome) :
        LookupFailed(k)
        => /\ outcome[k] # "CRASHED"
           /\ Ended => \A j \in 1..Len(outcome) : Attempted(j)

(***************************************************************************)
(* C3: the body submitted for a fetched record that holds created_on and   *)
(* modified_on holds neither, its content is the target public IP, and     *)
(* every other field of the fetched record is in it unchanged.             *)
(***************************************************************************)
C3_SubmittedBody ==
    \A p \in DOMAIN calls :
        calls[p].op = "PUT"
        => \E g \in CallsOf(calls[p].idx, "GET_RECORD") :
              /\ g < p
              /\ calls[g].ret = "ok"
              /\ LET fetched == calls[g].val
                     body == calls[p].body
                 IN Timestamps \subseteq DOMAIN fetched
                    => /\ DOMAIN body = DOMAIN fetched \ Timestamps
                       /\ body["content"] = public_ip
                       /\ \A f \in DOMAIN body \ {"content"} : body[f] = fetched[f]

\* a body was submitted for a fetched record whose content was not the target
C3_Witness ==
    \E p \in DOMAIN calls :
        /\ calls[p].op = "PUT"
        /\ \E g \in CallsOf(calls[p].idx, "GET_RECORD") :
              /\ calls[g].ret = "ok"
              /\ Timestamps \subseteq DOMAIN calls[g].val
              /\ "ttl" \in DOMAIN calls[g].val
              /\ calls[g].val["content"] # public_ip

(***************************************************************************)
(* C4: first run, the provider rejects the token on the zone lookup: the   *)
(* process exits with code 1, no config file has been written, and neither *)
(* the public-IP lookup nor any record update has been attempted.          *)
(***************************************************************************)
TokenRejected == \E k \in CallsOf(0, "GET_ZONE") : calls[k].answer = "error"

C4_InvalidTokenExits1 ==
    TokenRejected
    => /\ pc = "exited"
       /\ exitCode = <<1>>
       /\ file = NoFile
       /\ Len(calls) = 1
       /\ outcome = <<>>

C4_Witness == TokenRejected /\ pc = "exited"

(***************************************************************************)
(* C5: first run, token accepted: the zone lookup lists no zone -> exit    *)
(* code 2; the zone resolves and the record lookup lists no A record ->    *)
(* exit code 3; no config file is written; and of the codes 1, 2, 3 each   *)
(* stands for one cause.                                                   *)
(***************************************************************************)
ZoneNotFound == \E k \in CallsOf(0, "GET_ZONE") : calls[k].ret = "IndexError"
RecordNotFound == \E k \in CallsOf(0, "GET_RECORD") : calls[k].ret = "IndexError"

C5_SetupExitCodes ==
    /\ ZoneNotFound => pc = "exited" /\ exitCode = <<2>> /\ file = NoFile
    /\ RecordNotFound => pc = "exited" /\ exitCode = <<3>> /\ file = NoFile
    /\ pc = "exited"
       => /\ file = NoFile
          /\ exitCode = <<1>> <=> TokenRejected
          /\ exitCode = <<2>> <=> ZoneNotFound
          /\ exitCode = <<3>> <=> RecordNotFound

\* the zone resolved to a real identifier and the record was not found
C5_Witness ==
    /\ RecordNotFound
    /\ \E k \in CallsOf(0, "GET_ZONE") : calls[k].ret = "ok"
    /\ pc = "exited"

(***************************************************************************)
(* C6: a config file written on first run was validated: the zone lookup   *)
(* returned an existing zone and the record lookup under it returned an    *)
(* existing A record.                                                      *)
(***************************************************************************)
C6_SavedConfigWasValidated ==
    (FirstRun /\ file # NoFile)
    => /\ \E k \in CallsOf(0, "GET_ZONE") : calls[k].ret = "ok"
       /\ \E k \in CallsOf(0, "GET_RECORD") : calls[k].ret = "ok"

(***************************************************************************)
(* C7: a PUT answered 2xx with success:false ends the record as            *)
(* UPDATE_FAILED with a warning, never as UPDATED and never by a crash,    *)
(* and do_updates goes on to process every remaining configured record.    *)
(***************************************************************************)
C7_DeclaredFailureContinues ==
    \A i \in 1..Len(outcome) :
        PutDeclaredFailure(i)
        => /\ outcome[i] = "UPDATE_FAILED"
           /\ Logged("warning", "Failed to update", i)
           /\ Ended => \A j \in (i + 1)..Len(outcome) : Attempted(j)

\* the part of C7 that is about the failed record itself: it ends
\* UPDATE_FAILED with a warning, and the loop has moved past it
C7_DeclaredFailureMovesOn ==
    \A i \in 1..Len(outcome) :
        PutDeclaredFailure(i)
        => /\ outcome[i] = "UPDATE_FAILED"
           /\ Logged("warning", "Failed to update", i)
           /\ i < N => idx > i
           /\ i = N => pc = "done"

(***************************************************************************)
(* C8: when writing the config file (or restricting its permissions)       *)
(* fails, the failure is logged as an error, get_config returns the        *)
(* constructed config unchanged and the run goes on to the public-IP       *)
(* lookup and the updates of the records of that config.                   *)
(***************************************************************************)
\* save_config has run and the file is not there, or not with owner-only mode
SaveFailed ==
    /\ FirstRun
    /\ config # NoConfig
    /\ pc # "save_config"
    /\ (file = NoFile \/ fileMode # OwnerReadWrite)

C8_SaveFailureDoesNotAbort ==
    SaveFailed
    => /\ Logged("error", "Failed to create", 0)
       /\ \E k \in CallsOf(0, "GET_RECORD") :
             config = [token |-> token, zone |-> zone, record |-> calls[k].name]
       /\ pc # "exited"
       /\ pc # "get_public_ip" => CallsOf(0, "GET_IP") # {}
       /\ \A k \in DOMAIN calls :
             calls[k].op = "RESOLVE" => calls[k].name = config.record

\* after a failed write the record of the constructed config was updated
C8_Witness ==
    /\ SaveFailed
    /\ file = NoFile
    /\ pc = "done"
    /\ outcome = <<"UPDATED">>

(***************************************************************************)
(* C9: the public IP is fetched once, before any record is examined; when  *)
(* that request fails the run aborts there, with no retry, no resolution   *)
(* and no provider call for any record.                                    *)
(***************************************************************************)
C9_PublicIpOnceAndFirst ==
    /\ Cardinality(CallsOf(0, "GET_IP")) <= 1
    /\ pc \in {"resolve", "zone_lookup", "record_lookup", "put", "done"}
       => Cardinality(CallsOf(0, "GET_IP")) = 1
    /\ \A k \in DOMAIN calls :
          calls[k].idx >= 1
          => \E g \in CallsOf(0, "GET_IP") : g < k /\ calls[g].answer = "2xx"
    /\ \A g \in CallsOf(0, "GET_IP") :
          calls[g].answer # "2xx"
          => /\ pc = "crashed"
             /\ g = Len(calls)
             /\ outcome = <<>>

\* the echo service answered an error to a run with records configured
C9_Witness ==
    /\ \E g \in CallsOf(0, "GET_IP") : calls[g].answer = "error"
    /\ N >= 2
    /\ pc = "crashed"

(***************************************************************************)
(* C10: per record the calls are resolve, zone lookup, record lookup, PUT, *)
(* in that order and none repeated; a PUT comes only after the zone lookup *)
(* and then the record lookup of that record each returned a match, and it *)
(* is addressed to the zone and the record those lookups returned.         *)
(***************************************************************************)
Order(op) ==
    CASE op = "RESOLVE" -> 1 [] op = "GET_ZONE" -> 2 [] op = "GET_RECORD" -> 3
      [] OTHER -> 4

====
